---- MODULE Spec2Model ----
(***************************************************************************)
(* The AST lowering pass of src/lang/ir.cpp (class LowerAST) as a state    *)
(* machine.  The IR tree is an arena of nodes addressed by identity; the   *)
(* traversal of the visitor is an explicit call stack, so that the         *)
(* exception thrown by a rewrite unwinds it frame by frame up to the       *)
(* try/catch of LowerAST::run.                                             *)
(***************************************************************************)
EXTENDS Integers, Sequences, FiniteSets, TLC

\* ------------------------------------------------------------------------
\* Bounds and constants
\* ------------------------------------------------------------------------

\* greatest number of statements of the root StmtList of an input program
MaxLen == 2

\* greatest number of traversals followed; LowerAST::run needs fewer on every
\* input program (C7_TraversalBound), so the cap stops no run of the program
MaxTraversals == 12

\* the null pointer
\* calls of LowerAST::run on the same root
MaxRuns == 2

\* calls of IRPrinter::run on the same root
MaxPrinterRuns == 2

NULL == 0

\* identity of the root StmtList, context.root()
root == 1

\* the exception states of a traversal
NoException == "none"
IRModifiedException == "IRModifiedException"

\* ------------------------------------------------------------------------
\* The front end's expressions (shared objects held through ExprH handles)
\* ------------------------------------------------------------------------

Id(name) == [kind |-> "IdExpression", name |-> name]

Const(value) == [kind |-> "ConstExpression", value |-> value]

Binary(type, lhs, rhs) ==
  [kind |-> "BinaryOpExpression", type |-> type, lhs |-> lhs, rhs |-> rhs]

\* expression objects by identity; operands are referenced by identity, so
\* expression 11 holds expression 4 twice (a shared sub-expression)
Exprs ==
  << Id("a"),               \*  1  a
     Id("b"),               \*  2  b
     Const(1),              \*  3  1
     Binary("+", 1, 2),     \*  4  a + b
     Id("c"),               \*  5  c
     Binary("+", 4, 5),     \*  6  (a + b) + c
     Id("x"),               \*  7  x
     Binary("+", 7, 3),     \*  8  x + 1
     Const(500),            \*  9  500
     Binary("<", 1, 9),     \* 10  a < 500
     Binary("*", 4, 4) >>   \* 11  (a + b) * (a + b), one shared operand

\* ------------------------------------------------------------------------
\* Input programs, as the front end builds them
\* ------------------------------------------------------------------------

NoList == [kind |-> "null"]

List(statements) == [kind |-> "StmtList", statements |-> statements]

Alloca(lhs) == [kind |-> "AllocaStmt", lhs |-> lhs]

Assign(id, rhs) == [kind |-> "AssignStmt", id |-> id, rhs |-> rhs]

FrontendPrint(expr) == [kind |-> "FrontendPrintStmt", expr |-> expr]

If(condition, true_statements, false_statements) ==
  [kind |-> "IfStmt", condition |-> condition,
   true_statements |-> true_statements, false_statements |-> false_statements]

For(loop_var_id, begin, end, body) ==
  [kind |-> "ForStmt", loop_var_id |-> loop_var_id, begin |-> begin,
   end |-> end, body |-> body]

\* the statements an input program is made of
Items ==
  << Alloca("a"),
     Assign("x", 8),
     FrontendPrint(10),
     Assign("a", 6),
     FrontendPrint(1),
     If(10, List(<<FrontendPrint(2)>>), List(<<FrontendPrint(1)>>)),
     If(10, List(<<Alloca("b"), Assign("a", 4)>>), NoList),
     For("i", 3, 9, List(<<For("j", 3, 9, List(<<FrontendPrint(4)>>))>>)),
     For("i", 3, 9, List(<<Alloca("b"), Assign("a", 4), Alloca("c")>>)),
     For("i", 3, 9, List(<<If(10, List(<<FrontendPrint(1)>>), List(<<>>))>>)),
     FrontendPrint(11),
     If(10, NoList, NoList) >>

RECURSIVE SumTo(_, _)
SumTo(f, n) == IF n = 0 THEN 0 ELSE f[n] + SumTo(f, n - 1)

\* number of nodes of a nested statement or list
RECURSIVE NodeCount(_)
NodeCount(t) ==
  CASE t.kind = "null" -> 0
    [] t.kind = "StmtList" ->
         1 + SumTo([i \in DOMAIN t.statements |-> NodeCount(t.statements[i])],
                   Len(t.statements))
    [] t.kind = "IfStmt" ->
         1 + NodeCount(t.true_statements) + NodeCount(t.false_statements)
    [] t.kind = "ForStmt" -> 1 + NodeCount(t.body)
    [] OTHER -> 1

\* identity of the i-th statement of a list placed at self
ChildAt(t, self, i) ==
  self + 1 + SumTo([j \in DOMAIN t.statements |-> NodeCount(t.statements[j])],
                   i - 1)

\* the nodes of the nested statement or list t, placed at identity self with
\* parent back-reference parent
RECURSIVE Place(_, _, _)
RECURSIVE PlaceAll(_, _, _)
PlaceAll(t, self, i) ==
  IF i = 0 THEN <<>>
  ELSE Place(t.statements[i], ChildAt(t, self, i), self)
         @@ PlaceAll(t, self, i - 1)

Place(t, self, parent) ==
  CASE t.kind = "null" -> <<>>
    [] t.kind = "StmtList" ->
         (self :> [kind |-> "StmtList",
                   statements |-> [i \in DOMAIN t.statements |->
                                     ChildAt(t, self, i)]])
           @@ PlaceAll(t, self, Len(t.statements))
    [] t.kind = "IfStmt" ->
         LET tl == IF t.true_statements.kind = "null" THEN NULL ELSE self + 1
             fl == IF t.false_statements.kind = "null" THEN NULL
                   ELSE self + 1 + NodeCount(t.true_statements)
         IN  (self :> [kind |-> "IfStmt", parent |-> parent,
                       condition |-> t.condition,
                       true_statements |-> tl, false_statements |-> fl])
               @@ Place(t.true_statements, self + 1, self)
               @@ Place(t.false_statements,
                        self + 1 + NodeCount(t.true_statements), self)
    [] t.kind = "ForStmt" ->
         (self :> [kind |-> "ForStmt", parent |-> parent,
                   loop_var_id |-> t.loop_var_id, begin |-> t.begin,
                   end |-> t.end, body |-> self + 1])
           @@ Place(t.body, self + 1, self)
    [] t.kind = "AllocaStmt" ->
         self :> [kind |-> "AllocaStmt", parent |-> parent, lhs |-> t.lhs]
    [] t.kind = "AssignStmt" ->
         self :> [kind |-> "AssignStmt", parent |-> parent, id |-> t.id,
                  rhs |-> t.rhs]
    [] t.kind = "FrontendPrintStmt" ->
         self :> [kind |-> "FrontendPrintStmt", parent |-> parent,
                  expr |-> t.expr]

\* the input programs: a root StmtList of at most MaxLen of the Items
Programs ==
  UNION { { Place(List([i \in 1..n |-> Items[f[i]]]), root, NULL) :
              f \in [1..n -> 1..Len(Items)] } : n \in 0..MaxLen }

\* ------------------------------------------------------------------------
\* State
\* ------------------------------------------------------------------------

VARIABLES
  nodes,       \* the IR nodes alive, by identity
  next_id,     \* the identity the next created statement gets
  pc,          \* position of LowerAST::run
  modified,    \* the local of LowerAST::run
  stack,       \* the visitor's call stack: the nodes being visited
  exc,         \* the exception in flight
  traversals,  \* number of traversals LowerAST::run has started
  input,       \* the tree LowerAST::run was given
  calls,       \* number of calls of LowerAST::run so far
  current_indent,  \* IRPrinter::current_indent
  out,         \* the lines the running IRPrinter has printed
  outputs      \* the lines of each IRPrinter::run that has returned

\* the state of IRPrinter and of the diagnostic output stream
printer == <<current_indent, out, outputs>>

vars == <<nodes, next_id, pc, modified, stack, exc, traversals, input, calls, printer>>

Init ==
  /\ nodes \in Programs
  /\ next_id = 1 + Cardinality(DOMAIN nodes)
  /\ pc = "loop"
  /\ modified = FALSE
  /\ stack = <<>>
  /\ exc = NoException
  /\ traversals = 0
  /\ input = nodes
  /\ calls = 1
  /\ current_indent = -1
  /\ out = <<>>
  /\ outputs = <<>>

\* ------------------------------------------------------------------------
\* Expression flattening and structural replacement (declared in ir.h)
\* ------------------------------------------------------------------------

\* a freshly created statement held by a VecStatement: its identity and its
\* fields; it has no parent until it is spliced into a StmtList
New(ptr, obj) == [ptr |-> ptr, obj |-> obj]

\* flattened.back().get()
back(flattened) == flattened[Len(flattened)].ptr

\* Expression::flatten(ret): appends to ret the statements computing expr,
\* operands first and left before right; base is the identity of the first
\* statement created for ret
RECURSIVE flatten(_, _, _)
flatten(expr, ret, base) ==
  LET e == Exprs[expr] IN
  CASE e.kind = "ConstExpression" ->
         Append(ret, New(base + Len(ret),
                         [kind |-> "ConstStatement", parent |-> NULL,
                          value |-> e.value]))
    [] e.kind = "IdExpression" ->
         Append(ret, New(base + Len(ret),
                         [kind |-> "LocalLoadStmt", parent |-> NULL,
                          id |-> e.name]))
    [] e.kind = "BinaryOpExpression" ->
         LET l == flatten(e.lhs, ret, base)
             r == flatten(e.rhs, l, base)
         IN  Append(r, New(base + Len(r),
                           [kind |-> "BinaryOpStmt", parent |-> NULL,
                            type |-> e.type, lhs |-> back(l),
                            rhs |-> back(r)]))

\* whether target is a statement of the StmtList parent
Found(arena, parent, target) ==
  /\ parent \in DOMAIN arena
  /\ arena[parent].kind = "StmtList"
  /\ \E i \in DOMAIN arena[parent].statements :
       arena[parent].statements[i] = target

\* StmtList::replace_with(target, replacement): the arena after splicing the
\* replacement in place of target, which is destroyed
replace_with(arena, parent, target, replacement) ==
  LET old == arena[parent].statements
      at == CHOOSE i \in DOMAIN old : old[i] = target
      ptrs == [k \in DOMAIN replacement |-> replacement[k].ptr]
      spliced == SubSeq(old, 1, at - 1) \o ptrs \o SubSeq(old, at + 1, Len(old))
      kept == [n \in DOMAIN arena \ {target} |->
                 IF n = parent THEN [arena[n] EXCEPT !.statements = spliced]
                 ELSE arena[n]]
      added == [n \in {ptrs[k] : k \in DOMAIN ptrs} |->
                  LET k == CHOOSE k \in DOMAIN ptrs : ptrs[k] = n
                  IN  [replacement[k].obj EXCEPT !.parent = parent]]
  IN  added @@ kept

\* ------------------------------------------------------------------------
\* LowerAST
\* ------------------------------------------------------------------------

\* LowerAST::expand(expr)
expand(expr) == flatten(expr, <<>>, next_id)

\* the frame of the visit of node n, at its first step
Frame(n) == [node |-> n, pos |-> 1]

top == stack[Len(stack)]

\* the statement the StmtList loop on top of the stack is at
cur == nodes[top.node].statements[top.pos]

\* node->accept(this): the visit of n starts
Call(n) == stack' = Append(stack, Frame(n))

\* a visit returns: its caller goes on with its next step, and the traversal
\* is over when the visit of the root returns
Return ==
  LET rest == SubSeq(stack, 1, Len(stack) - 1) IN
  IF rest = <<>>
  THEN /\ stack' = <<>>
       /\ pc' = "check"
  ELSE /\ stack' = [rest EXCEPT ![Len(rest)].pos = @ + 1]
       /\ pc' = pc

\* the step of the visit on top of the stack is done
Advance == stack' = [stack EXCEPT ![Len(stack)].pos = @ + 1]

\* a visit is running, outside any unwinding
Running ==
  /\ pc = "try"
  /\ exc = NoException
  /\ stack # <<>>

\* the loop of visit(StmtList *) is at a statement of kind k
Visiting(k) ==
  /\ Running
  /\ nodes[top.node].kind = "StmtList"
  /\ top.pos <= Len(nodes[top.node].statements)
  /\ nodes[cur].kind = k

\* visit(StmtList *): the loop is past the last statement
VisitStmtList ==
  /\ Running
  /\ nodes[top.node].kind = "StmtList"
  /\ top.pos > Len(nodes[top.node].statements)
  /\ Return
  /\ UNCHANGED <<nodes, next_id, modified, exc, traversals, input, calls, printer>>

\* visit(AllocaStmt *): empty body
VisitAllocaStmt ==
  /\ Visiting("AllocaStmt")
  /\ Advance
  /\ UNCHANGED <<nodes, next_id, pc, modified, exc, traversals, input, calls, printer>>

\* visit(BinaryOpStmt *): empty body
VisitBinaryOpStmt ==
  /\ Visiting("BinaryOpStmt")
  /\ Advance
  /\ UNCHANGED <<nodes, next_id, pc, modified, exc, traversals, input, calls, printer>>

\* visit(LocalLoadStmt *): empty body
VisitLocalLoadStmt ==
  /\ Visiting("LocalLoadStmt")
  /\ Advance
  /\ UNCHANGED <<nodes, next_id, pc, modified, exc, traversals, input, calls, printer>>

\* visit(LocalStoreStmt *) raising the signal of a rewrite
VisitLocalStoreStmt_Signal ==
  /\ Visiting("LocalStoreStmt")
  /\ exc' = IRModifiedException
  /\ UNCHANGED <<nodes, next_id, pc, modified, stack, traversals, input, calls, printer>>

\* visit(LocalStoreStmt *): empty body
VisitLocalStoreStmt ==
  /\ Visiting("LocalStoreStmt")
  /\ Advance
  /\ UNCHANGED <<nodes, next_id, pc, modified, exc, traversals, input, calls, printer>>

\* visit(PrintStmt *): empty body
VisitPrintStmt ==
  /\ Visiting("PrintStmt")
  /\ Advance
  /\ UNCHANGED <<nodes, next_id, pc, modified, exc, traversals, input, calls, printer>>

\* visit(ConstStatement *): empty body
VisitConstStatement ==
  /\ Visiting("ConstStatement")
  /\ Advance
  /\ UNCHANGED <<nodes, next_id, pc, modified, exc, traversals, input, calls, printer>>

\* visit(IfStmt *) with the two branches visited in the other order
VisitIfStmt_FalseFirst ==
  \/ /\ Visiting("IfStmt")
     /\ Call(cur)
     /\ UNCHANGED <<nodes, next_id, pc, modified, exc, traversals, input, calls, printer>>
  \/ /\ Running
     /\ nodes[top.node].kind = "IfStmt"
     /\ top.pos = 1
     /\ IF nodes[top.node].false_statements # NULL
        THEN Call(nodes[top.node].false_statements)
        ELSE Advance
     /\ UNCHANGED <<nodes, next_id, pc, modified, exc, traversals, input, calls, printer>>
  \/ /\ Running
     /\ nodes[top.node].kind = "IfStmt"
     /\ top.pos = 2
     /\ IF nodes[top.node].true_statements # NULL
        THEN Call(nodes[top.node].true_statements)
        ELSE Advance
     /\ UNCHANGED <<nodes, next_id, pc, modified, exc, traversals, input, calls, printer>>
  \/ /\ Running
     /\ nodes[top.node].kind = "IfStmt"
     /\ top.pos = 3
     /\ Return
     /\ UNCHANGED <<nodes, next_id, modified, exc, traversals, input, calls, printer>>

\* visit(IfStmt *): entered from a StmtList, then the two branches in turn
VisitIfStmt ==
  \/ /\ Visiting("IfStmt")
     /\ Call(cur)
     /\ UNCHANGED <<nodes, next_id, pc, modified, exc, traversals, input, calls, printer>>
  \/ /\ Running
     /\ nodes[top.node].kind = "IfStmt"
     /\ top.pos = 1
     /\ IF nodes[top.node].true_statements # NULL
        THEN Call(nodes[top.node].true_statements)
        ELSE Advance
     /\ UNCHANGED <<nodes, next_id, pc, modified, exc, traversals, input, calls, printer>>
  \/ /\ Running
     /\ nodes[top.node].kind = "IfStmt"
     /\ top.pos = 2
     /\ IF nodes[top.node].false_statements # NULL
        THEN Call(nodes[top.node].false_statements)
        ELSE Advance
     /\ UNCHANGED <<nodes, next_id, pc, modified, exc, traversals, input, calls, printer>>
  \/ /\ Running
     /\ nodes[top.node].kind = "IfStmt"
     /\ top.pos = 3
     /\ Return
     /\ UNCHANGED <<nodes, next_id, modified, exc, traversals, input, calls, printer>>

\* visit(ForStmt *) with an empty body: the loop body is not visited
VisitForStmt_Empty ==
  /\ Visiting("ForStmt")
  /\ Advance
  /\ UNCHANGED <<nodes, next_id, pc, modified, exc, traversals, input, calls, printer>>

\* visit(ForStmt *): entered from a StmtList, then the body
VisitForStmt ==
  \/ /\ Visiting("ForStmt")
     /\ Call(cur)
     /\ UNCHANGED <<nodes, next_id, pc, modified, exc, traversals, input, calls, printer>>
  \/ /\ Running
     /\ nodes[top.node].kind = "ForStmt"
     /\ top.pos = 1
     /\ Call(nodes[top.node].body)
     /\ UNCHANGED <<nodes, next_id, pc, modified, exc, traversals, input, calls, printer>>
  \/ /\ Running
     /\ nodes[top.node].kind = "ForStmt"
     /\ top.pos = 2
     /\ Return
     /\ UNCHANGED <<nodes, next_id, modified, exc, traversals, input, calls, printer>>

\* the PrintStmt of flattened.front() instead of flattened.back()
FrontendPrintFlattened_Front(stmt) ==
  LET flattened == flatten(nodes[stmt].expr, <<>>, next_id)
      print == New(next_id + Len(flattened),
                   [kind |-> "PrintStmt", parent |-> NULL,
                    stmt |-> flattened[1].ptr])
  IN  Append(flattened, print)

\* the statements visit(FrontendPrintStmt *) builds: the flattened
\* expression, then the PrintStmt of its last statement
FrontendPrintFlattened(stmt) ==
  LET flattened == flatten(nodes[stmt].expr, <<>>, next_id)
      print == New(next_id + Len(flattened),
                   [kind |-> "PrintStmt", parent |-> NULL,
                    stmt |-> back(flattened)])
  IN  Append(flattened, print)

\* the LocalStoreStmt of flattened.front() instead of flattened.back()
AssignFlattened_Front(assign) ==
  LET flattened == flatten(nodes[assign].rhs, <<>>, next_id)
      local_store == New(next_id + Len(flattened),
                         [kind |-> "LocalStoreStmt", parent |-> NULL,
                          id |-> nodes[assign].id, stmt |-> flattened[1].ptr])
  IN  Append(flattened, local_store)

\* the LocalStoreStmt put in front of the flattened right-hand side
AssignFlattened_StoreFirst(assign) ==
  LET flattened == flatten(nodes[assign].rhs, <<>>, next_id + 1)
      local_store == New(next_id,
                         [kind |-> "LocalStoreStmt", parent |-> NULL,
                          id |-> nodes[assign].id, stmt |-> back(flattened)])
  IN  <<local_store>> \o flattened

\* the LocalStoreStmt of the last statement of a second flattening of the
\* right-hand side, whose statements are never spliced into the tree
AssignFlattened_Temporary(assign) ==
  LET flattened == flatten(nodes[assign].rhs, <<>>, next_id)
      temporary == flatten(nodes[assign].rhs, <<>>,
                           next_id + Len(flattened) + 1)
      local_store == New(next_id + Len(flattened),
                         [kind |-> "LocalStoreStmt", parent |-> NULL,
                          id |-> nodes[assign].id, stmt |-> back(temporary)])
  IN  Append(flattened, local_store)

\* the statements visit(AssignStmt *) builds: the flattened right-hand side,
\* then the LocalStoreStmt of its last statement
AssignFlattened(assign) ==
  LET flattened == flatten(nodes[assign].rhs, <<>>, next_id)
      local_store == New(next_id + Len(flattened),
                         [kind |-> "LocalStoreStmt", parent |-> NULL,
                          id |-> nodes[assign].id, stmt |-> back(flattened)])
  IN  Append(flattened, local_store)

\* replace_with called on the first statement of the parent instead of stmt
Replace_First(stmt, flattened) ==
  replace_with(nodes, nodes[stmt].parent,
               nodes[nodes[stmt].parent].statements[1], flattened)

\* stmt->parent->replace_with(stmt, flattened)
Replace(stmt, flattened) ==
  replace_with(nodes, nodes[stmt].parent, stmt, flattened)

\* a rewrite without its throw: the loop of visit(StmtList *) goes on
Rewrite_NoThrow(stmt, flattened) ==
  /\ next_id' = next_id + Len(flattened)
  /\ nodes' = Replace(stmt, flattened)
  /\ Advance
  /\ UNCHANGED <<pc, modified, exc, traversals, input, calls, printer>>

\* a rewrite: the statement is replaced by the flattened statements and the
\* traversal is given up; a statement its parent does not hold is fatal
Rewrite(stmt, flattened) ==
  /\ next_id' = next_id + Len(flattened)
  /\ IF Found(nodes, nodes[stmt].parent, stmt)
     THEN /\ nodes' = Replace(stmt, flattened)
          /\ exc' = IRModifiedException
          /\ pc' = pc
     ELSE /\ pc' = "fatal"
          /\ UNCHANGED <<nodes, exc>>
  /\ UNCHANGED <<modified, stack, traversals, input, calls, printer>>

\* visit(FrontendPrintStmt *)
VisitFrontendPrintStmt ==
  /\ Visiting("FrontendPrintStmt")
  /\ \E flattened \in {FrontendPrintFlattened(cur)} : Rewrite(cur, flattened)

\* visit(AssignStmt *)
VisitAssignStmt ==
  /\ Visiting("AssignStmt")
  /\ \E flattened \in {AssignFlattened(cur)} : Rewrite(cur, flattened)

\* the exception leaves a visit: no visit method has a handler
Unwind ==
  /\ pc = "try"
  /\ exc # NoException
  /\ stack # <<>>
  /\ stack' = SubSeq(stack, 1, Len(stack) - 1)
  /\ UNCHANGED <<nodes, next_id, pc, modified, exc, traversals, input, calls, printer>>

\* a handler of another exception type
Catches_Other(e) == e = "std::exception"

\* catch (IRModifiedException)
Catches(e) == e = IRModifiedException

\* the test without its negation
Break_Inverted(m) == m

\* a loop that is never left
Break_Never(m) == FALSE

\* if (!modified) break
Break(m) == ~m

\* LowerAST::run, top of the loop: node->accept(&inst) inside the try
RunTraverse ==
  /\ pc = "loop"
  /\ traversals < MaxTraversals
  /\ modified' = FALSE
  /\ stack' = <<Frame(root)>>
  /\ pc' = "try"
  /\ traversals' = traversals + 1
  /\ UNCHANGED <<nodes, next_id, exc, input, calls, printer>>

\* LowerAST::run, the exception reaches the try block
RunCatch ==
  /\ pc = "try"
  /\ exc # NoException
  /\ stack = <<>>
  /\ IF Catches(exc)
     THEN /\ modified' = TRUE
          /\ exc' = NoException
          /\ pc' = "check"
     ELSE /\ pc' = "propagated"
          /\ UNCHANGED <<modified, exc>>
  /\ UNCHANGED <<nodes, next_id, stack, traversals, input, calls, printer>>

\* LowerAST::run, end of the loop body
RunCheck ==
  /\ pc = "check"
  /\ pc' = IF Break(modified) THEN "returned" ELSE "loop"
  /\ UNCHANGED <<nodes, next_id, modified, stack, exc, traversals, input, calls, printer>>

Next ==
  \/ RunTraverse
  \/ VisitStmtList
  \/ VisitAllocaStmt
  \/ VisitBinaryOpStmt
  \/ VisitIfStmt
  \/ VisitLocalLoadStmt
  \/ VisitLocalStoreStmt
  \/ VisitPrintStmt
  \/ VisitFrontendPrintStmt
  \/ VisitConstStatement
  \/ VisitForStmt
  \/ VisitAssignStmt
  \/ Unwind
  \/ RunCatch
  \/ RunCheck

Spec == Init /\ [][Next]_vars

\* the scheduling of a sequential program: a step that can be taken is taken
FairSpec == Spec /\ WF_vars(Next)

\* LowerAST::run is called again on the root it has returned from
RunAgain ==
  /\ pc = "returned"
  /\ calls < MaxRuns
  /\ calls' = calls + 1
  /\ pc' = "loop"
  /\ traversals' = 0
  /\ input' = nodes
  /\ UNCHANGED <<nodes, next_id, modified, stack, exc, printer>>

RerunNext ==
  \/ Next
  \/ RunAgain

\* LowerAST::run called on one root up to MaxRuns times
RerunSpec == Init /\ [][RerunNext]_vars

\* ------------------------------------------------------------------------
\* IRPrinter
\* ------------------------------------------------------------------------

\* Statement::name() (declared in ir.h): one name per statement identity
StmtName(stmt) == ToString(stmt)

\* Statement::type_hint() (declared in ir.h): the <type> column of a line
type_hint(stmt) == "<type>"

\* Expression::serialize() (declared in ir.h): the text of an expression
RECURSIVE serialize(_)
serialize(expr) ==
  LET e == Exprs[expr] IN
  CASE e.kind = "ConstExpression" -> <<ToString(e.value)>>
    [] e.kind = "IdExpression" -> <<e.name>>
    [] e.kind = "BinaryOpExpression" ->
         <<"(">> \o serialize(e.lhs) \o <<e.type>> \o serialize(e.rhs)
           \o <<")">>

\* the names operand->name() can give: the name of the operand, or anything
\* when the operand has been destroyed
OperandNames(operand) ==
  IF operand \in DOMAIN nodes THEN {StmtName(operand)}
  ELSE {StmtName(n) : n \in 1..next_id}

\* number of "  " IRPrinter::print writes in front of a line
Spaces(indent) == IF indent > 0 THEN indent ELSE 0

\* IRPrinter::print(f, args...): one line on the output stream
print(text) ==
  out' = Append(out, [indent |-> Spaces(current_indent), text |-> text])

\* the printer is at a statement of kind k in the loop of visit(StmtList *)
Printing(k) ==
  /\ pc = "print"
  /\ stack # <<>>
  /\ nodes[top.node].kind = "StmtList"
  /\ top.pos >= 1
  /\ top.pos <= Len(nodes[top.node].statements)
  /\ nodes[cur].kind = k

\* node->accept(this): the visit of n by the printer starts; the visit of a
\* StmtList starts before its current_indent++
Accept(n) ==
  stack' = Append(stack, [node |-> n,
                          pos |-> IF nodes[n].kind = "StmtList" THEN 0 ELSE 1])

\* a visit of the printer returns; IRPrinter::run returns with the visit of
\* the root, to LowerAST::run's caller or to the caller that built the tree
PrinterReturn ==
  LET rest == SubSeq(stack, 1, Len(stack) - 1) IN
  IF rest = <<>>
  THEN /\ stack' = <<>>
       /\ pc' = IF traversals = 0 THEN "built" ELSE "returned"
       /\ outputs' = Append(outputs, out')
  ELSE /\ stack' = [rest EXCEPT ![Len(rest)].pos = @ + 1]
       /\ pc' = pc
       /\ outputs' = outputs

\* the part of the state no visit of the printer writes
lowering == <<nodes, next_id, modified, exc, traversals, input, calls>>

\* a visit that prints one line
PrintLine(text) ==
  /\ print(text)
  /\ Advance
  /\ UNCHANGED <<lowering, pc, current_indent, outputs>>

\* IRPrinter::run(node): a new printer visits the root
IRPrinterRun ==
  /\ pc \in {"built", "returned"}
  /\ Len(outputs) < MaxPrinterRuns
  /\ current_indent' = -1
  /\ out' = <<>>
  /\ Accept(root)
  /\ pc' = "print"
  /\ UNCHANGED <<lowering, outputs>>

\* visit(StmtList *) leaving current_indent as it is when it returns
PrinterVisitStmtList_NoDecrement ==
  \/ /\ pc = "print"
     /\ stack # <<>>
     /\ nodes[top.node].kind = "StmtList"
     /\ top.pos = 0
     /\ current_indent' = current_indent + 1
     /\ Advance
     /\ UNCHANGED <<lowering, pc, out, outputs>>
  \/ /\ pc = "print"
     /\ stack # <<>>
     /\ nodes[top.node].kind = "StmtList"
     /\ top.pos > Len(nodes[top.node].statements)
     /\ UNCHANGED <<lowering, current_indent, out>>
     /\ PrinterReturn

\* visit(StmtList *): the indent is one more during the loop
PrinterVisitStmtList ==
  \/ /\ pc = "print"
     /\ stack # <<>>
     /\ nodes[top.node].kind = "StmtList"
     /\ top.pos = 0
     /\ current_indent' = current_indent + 1
     /\ Advance
     /\ UNCHANGED <<lowering, pc, out, outputs>>
  \/ /\ pc = "print"
     /\ stack # <<>>
     /\ nodes[top.node].kind = "StmtList"
     /\ top.pos > Len(nodes[top.node].statements)
     /\ current_indent' = current_indent - 1
     /\ UNCHANGED <<lowering, out>>
     /\ PrinterReturn

\* visit(AssignStmt *)
PrinterVisitAssignStmt ==
  /\ Printing("AssignStmt")
  /\ PrintLine(<<nodes[cur].id, "=">> \o serialize(nodes[cur].rhs))

\* visit(AllocaStmt *)
PrinterVisitAllocaStmt ==
  /\ Printing("AllocaStmt")
  /\ PrintLine(<<type_hint(cur), "alloca", nodes[cur].lhs>>)

\* visit(BinaryOpStmt *)
PrinterVisitBinaryOpStmt ==
  /\ Printing("BinaryOpStmt")
  /\ \E lhs \in OperandNames(nodes[cur].lhs),
        rhs \in OperandNames(nodes[cur].rhs) :
       PrintLine(<<type_hint(cur), StmtName(cur), "=", nodes[cur].type,
                   lhs, rhs>>)

\* visit(IfStmt *): the if line, the true branch, the else line and the
\* false branch when there is one, the closing line
PrinterVisitIfStmt ==
  \/ /\ Printing("IfStmt")
     /\ print(<<"if">> \o serialize(nodes[cur].condition) \o <<"{">>)
     /\ Accept(cur)
     /\ UNCHANGED <<lowering, pc, current_indent, outputs>>
  \/ /\ pc = "print"
     /\ stack # <<>>
     /\ nodes[top.node].kind = "IfStmt"
     /\ top.pos = 1
     /\ IF nodes[top.node].true_statements # NULL
        THEN Accept(nodes[top.node].true_statements)
        ELSE Advance
     /\ UNCHANGED <<lowering, pc, printer>>
  \/ /\ pc = "print"
     /\ stack # <<>>
     /\ nodes[top.node].kind = "IfStmt"
     /\ top.pos = 2
     /\ IF nodes[top.node].false_statements # NULL
        THEN /\ print(<<"}", "else", "{">>)
             /\ Accept(nodes[top.node].false_statements)
        ELSE /\ out' = out
             /\ Advance
     /\ UNCHANGED <<lowering, pc, current_indent, outputs>>
  \/ /\ pc = "print"
     /\ stack # <<>>
     /\ nodes[top.node].kind = "IfStmt"
     /\ top.pos = 3
     /\ print(<<"}">>)
     /\ PrinterReturn
     /\ UNCHANGED <<lowering, current_indent>>

\* visit(FrontendPrintStmt *)
PrinterVisitFrontendPrintStmt ==
  /\ Printing("FrontendPrintStmt")
  /\ PrintLine(<<"print">> \o serialize(nodes[cur].expr))

\* visit(PrintStmt *)
PrinterVisitPrintStmt ==
  /\ Printing("PrintStmt")
  /\ \E operand \in OperandNames(nodes[cur].stmt) :
       PrintLine(<<type_hint(cur), "print", operand>>)

\* visit(ConstStatement *) changing the value it prints
PrinterVisitConstStatement_Bump ==
  /\ Printing("ConstStatement")
  /\ print(<<type_hint(cur), StmtName(cur), "=", "const",
             ToString(nodes[cur].value)>>)
  /\ nodes' = [nodes EXCEPT ![cur].value = @ + 1]
  /\ Advance
  /\ UNCHANGED <<next_id, modified, exc, traversals, input, calls, pc,
                 current_indent, outputs>>

\* visit(ConstStatement *)
PrinterVisitConstStatement ==
  /\ Printing("ConstStatement")
  /\ PrintLine(<<type_hint(cur), StmtName(cur), "=", "const",
                 ToString(nodes[cur].value)>>)

\* visit(ForStmt *): the for line, the body, the closing line
PrinterVisitForStmt ==
  \/ /\ Printing("ForStmt")
     /\ print(<<"for", nodes[cur].loop_var_id, "in", "range(">>
                \o serialize(nodes[cur].begin) \o <<",">>
                \o serialize(nodes[cur].end) \o <<")", "{">>)
     /\ Accept(cur)
     /\ UNCHANGED <<lowering, pc, current_indent, outputs>>
  \/ /\ pc = "print"
     /\ stack # <<>>
     /\ nodes[top.node].kind = "ForStmt"
     /\ top.pos = 1
     /\ Accept(nodes[top.node].body)
     /\ UNCHANGED <<lowering, pc, printer>>
  \/ /\ pc = "print"
     /\ stack # <<>>
     /\ nodes[top.node].kind = "ForStmt"
     /\ top.pos = 2
     /\ print(<<"}">>)
     /\ PrinterReturn
     /\ UNCHANGED <<lowering, current_indent>>

\* visit(LocalLoadStmt *)
PrinterVisitLocalLoadStmt ==
  /\ Printing("LocalLoadStmt")
  /\ PrintLine(<<StmtName(cur), "=", "load", nodes[cur].id>>)

\* visit(LocalStoreStmt *)
PrinterVisitLocalStoreStmt ==
  /\ Printing("LocalStoreStmt")
  /\ \E operand \in OperandNames(nodes[cur].stmt) :
       PrintLine(<<"[store]", nodes[cur].id, "=", operand>>)

PrintNext ==
  \/ Next
  \/ IRPrinterRun
  \/ PrinterVisitStmtList
  \/ PrinterVisitAssignStmt
  \/ PrinterVisitAllocaStmt
  \/ PrinterVisitBinaryOpStmt
  \/ PrinterVisitIfStmt
  \/ PrinterVisitFrontendPrintStmt
  \/ PrinterVisitPrintStmt
  \/ PrinterVisitConstStatement
  \/ PrinterVisitForStmt
  \/ PrinterVisitLocalLoadStmt
  \/ PrinterVisitLocalStoreStmt

\* the tree as the front end built it, before IRPrinter::run on it as it is
\* or before LowerAST::run
PrintInit ==
  /\ nodes \in Programs
  /\ next_id = 1 + Cardinality(DOMAIN nodes)
  /\ pc \in {"loop", "built"}
  /\ modified = FALSE
  /\ stack = <<>>
  /\ exc = NoException
  /\ traversals = 0
  /\ input = nodes
  /\ calls = 1
  /\ current_indent = -1
  /\ out = <<>>
  /\ outputs = <<>>

\* IRPrinter::run called up to MaxPrinterRuns times, on the tree as built or
\* on the tree LowerAST::run has lowered
PrintSpec == PrintInit /\ [][PrintNext]_vars

\* ------------------------------------------------------------------------
\* The shape of the tree
\* ------------------------------------------------------------------------

HighLevelKinds == {"AssignStmt", "FrontendPrintStmt"}

\* the nodes the node n of an arena holds: the statements of a StmtList, the
\* branches of an IfStmt, the body of a ForStmt
Held(arena, n) ==
  CASE arena[n].kind = "StmtList" ->
         {arena[n].statements[i] : i \in DOMAIN arena[n].statements}
    [] arena[n].kind = "IfStmt" ->
         {arena[n].true_statements, arena[n].false_statements} \ {NULL}
    [] arena[n].kind = "ForStmt" -> {arena[n].body} \ {NULL}
    [] OTHER -> {}

\* the node of the arena that holds node c
Holder(arena, c) == CHOOSE n \in DOMAIN arena : c \in Held(arena, n)

\* the statements that hold an expression of the front end: the printer
\* serializes rhs, expr, condition, begin and end
HoldsExpression(arena, n) ==
  arena[n].kind \in {"AssignStmt", "FrontendPrintStmt", "IfStmt", "ForStmt"}

\* the nodes of the tree under n, n included
RECURSIVE Under(_, _)
Under(arena, n) ==
  {n} \cup UNION {Under(arena, c) : c \in Held(arena, n) \cap DOMAIN arena}

\* the nodes of the tree rooted at the node LowerAST::run is given
TreeOf(arena) == Under(arena, root)

Tree == TreeOf(nodes)

\* the AssignStmt and FrontendPrintStmt nodes of the tree of an arena
HighLevel(arena) ==
  {n \in TreeOf(arena) : arena[n].kind \in HighLevelKinds}

\* the places (StmtList, position) of an arena that hold statement s
Places(arena, s) ==
  {p \in UNION {{<<l, i>> : i \in DOMAIN arena[l].statements} :
                  l \in {m \in DOMAIN arena : arena[m].kind = "StmtList"}} :
     arena[p[1]].statements[p[2]] = s}

\* the statements referenced as operands by statement n
Operands(arena, n) ==
  CASE arena[n].kind = "BinaryOpStmt" -> {arena[n].lhs, arena[n].rhs}
    [] arena[n].kind \in {"PrintStmt", "LocalStoreStmt"} -> {arena[n].stmt}
    [] OTHER -> {}

\* statement s of the arena yields the value of expression expr
RECURSIVE Computes(_, _, _)
Computes(arena, s, expr) ==
  /\ s \in DOMAIN arena
  /\ LET e == Exprs[expr] IN
     CASE e.kind = "ConstExpression" ->
            /\ arena[s].kind = "ConstStatement"
            /\ arena[s].value = e.value
       [] e.kind = "IdExpression" ->
            /\ arena[s].kind = "LocalLoadStmt"
            /\ arena[s].id = e.name
       [] e.kind = "BinaryOpExpression" ->
            /\ arena[s].kind = "BinaryOpStmt"
            /\ arena[s].type = e.type
            /\ Computes(arena, arena[s].lhs, e.lhs)
            /\ Computes(arena, arena[s].rhs, e.rhs)

\* the statements the value of statement s is computed from, s included
RECURSIVE Support(_, _)
Support(arena, s) ==
  IF s \notin DOMAIN arena THEN {}
  ELSE {s} \cup
       (IF arena[s].kind = "BinaryOpStmt"
        THEN Support(arena, arena[s].lhs) \cup Support(arena, arena[s].rhs)
        ELSE {})

\* in a step of the visit of a high-level statement: the statements now at
\* its place in the StmtList whose loop is visiting it
Spliced ==
  LET old == nodes[top.node].statements
      new == nodes'[top.node].statements
  IN  SubSeq(new, top.pos, top.pos + Len(new) - Len(old))

\* ------------------------------------------------------------------------
\* Claims
\* ------------------------------------------------------------------------

\* C1: on every input tree LowerAST::run terminates: the loop eventually
\* performs a traversal that raises no tree-modified signal, and returns.
C1_RunTerminates == <>(pc = "returned" /\ ~modified)

\* C1 witness: run has returned after rewriting statements nested in an
\* IfStmt branch or a ForStmt body.
C1_ReturnedAfterNestedRewrites ==
  /\ pc = "returned"
  /\ traversals >= 3
  /\ \E n \in HighLevel(input) : input[n].parent # root

\* C2: when LowerAST::run returns, the tree holds no AssignStmt and no
\* FrontendPrintStmt at any nesting depth.
C2_NoHighLevelLeft ==
  pc = "returned" => \A n \in Tree : nodes[n].kind \notin HighLevelKinds

\* C2 witness: run has returned on an input with a high-level statement in
\* an IfStmt branch and one in the body of a nested ForStmt.
C2_ReturnedFromNestedInput ==
  /\ pc = "returned"
  /\ \E n \in HighLevel(input) :
       /\ input[n].parent # root
       /\ input[Holder(input, input[n].parent)].kind = "ForStmt"
       /\ input[Holder(input, input[n].parent)].parent # root
  /\ \E n \in HighLevel(input) :
       /\ input[n].parent # root
       /\ input[Holder(input, input[n].parent)].kind = "IfStmt"

\* C7: with N high-level statements in the input tree, LowerAST::run starts
\* at most N + 1 traversals of the root.
C7_TraversalBound == traversals <= Cardinality(HighLevel(input)) + 1

\* C7 witness: run has returned after exactly N + 1 traversals, N >= 2.
C7_BoundReached ==
  /\ pc = "returned"
  /\ Cardinality(HighLevel(input)) >= 2
  /\ traversals = Cardinality(HighLevel(input)) + 1

\* C8: the tree-modified signal never leaves LowerAST::run: it is in flight
\* only inside the try block of run, and it never passes the catch clause.
C8_SignalStaysInRun ==
  /\ pc # "propagated"
  /\ exc # NoException => pc = "try"

\* C8 witness: the driving loop has caught a signal raised by a rewrite
\* two StmtLists below the root.
C8_NestedSignalCaught ==
  /\ pc = "check"
  /\ modified
  /\ exc = NoException
  /\ \E n \in DOMAIN nodes :
       /\ nodes[n].kind \in {"PrintStmt", "LocalStoreStmt"}
       /\ nodes[n].parent # root
       /\ nodes[Holder(nodes, nodes[n].parent)].parent # root

\* C10: after LowerAST::run returns no statement of the tree holds an
\* expression tree any more, the condition of an IfStmt and the bounds of a
\* ForStmt included.
C10_NoExpressionLeft ==
  pc = "returned" =>
    \A n \in Tree : ~HoldsExpression(nodes, n)

\* the statements before and after the place of the visited statement are
\* the same statements in the same order after the step
SiblingsKept ==
  LET old == nodes[top.node].statements
      new == nodes'[top.node].statements
  IN  /\ Len(new) >= Len(old) - 1
      /\ SubSeq(new, 1, top.pos - 1) = SubSeq(old, 1, top.pos - 1)
      /\ SubSeq(new, top.pos + Len(Spliced), Len(new))
           = SubSeq(old, top.pos + 1, Len(old))

\* the statements of Spliced are statements created by the step
SplicedFresh ==
  \A i \in DOMAIN Spliced :
    /\ Spliced[i] \notin DOMAIN nodes
    /\ Spliced[i] \in DOMAIN nodes'

\* C3: an AssignStmt(id, rhs) is replaced, at its own position in its parent
\* StmtList, by the flattened sequence of rhs followed by exactly one
\* LocalStoreStmt of id whose operand is the last statement of that
\* sequence; x = x + 1 becomes load(x), const(1), binaryop(+, load, const),
\* store(x, binaryop).
C3_AssignLowered ==
  [][Visiting("AssignStmt") =>
       LET assign == cur
           n == Len(Spliced)
       IN  /\ nodes[assign].parent = top.node
           /\ SiblingsKept
           /\ n >= 2
           /\ SplicedFresh
           /\ nodes'[Spliced[n]].kind = "LocalStoreStmt"
           /\ nodes'[Spliced[n]].id = nodes[assign].id
           /\ nodes'[Spliced[n]].stmt = Spliced[n - 1]
           /\ \A i \in 1..(n - 1) : nodes'[Spliced[i]].kind # "LocalStoreStmt"
           /\ Computes(nodes', Spliced[n - 1], nodes[assign].rhs)
           /\ {Spliced[i] : i \in 1..(n - 1)} = Support(nodes', Spliced[n - 1])
           /\ (nodes[assign].id = "x" /\ nodes[assign].rhs = 8) =>
                /\ n = 4
                /\ nodes'[Spliced[1]] =
                     [kind |-> "LocalLoadStmt", parent |-> top.node,
                      id |-> "x"]
                /\ nodes'[Spliced[2]] =
                     [kind |-> "ConstStatement", parent |-> top.node,
                      value |-> 1]
                /\ nodes'[Spliced[3]] =
                     [kind |-> "BinaryOpStmt", parent |-> top.node,
                      type |-> "+", lhs |-> Spliced[1], rhs |-> Spliced[2]]
                /\ nodes'[Spliced[4]] =
                     [kind |-> "LocalStoreStmt", parent |-> top.node,
                      id |-> "x", stmt |-> Spliced[3]]
  ]_vars

\* C3 witness: x = x + 1 has just been lowered: load(x), const(1),
\* binaryop(+), store(x) stand at its place.
C3_AssignJustLowered ==
  /\ exc = IRModifiedException
  /\ stack # <<>>
  /\ nodes[top.node].kind = "StmtList"
  /\ LET s == nodes[top.node].statements
         p == top.pos
     IN  /\ Len(s) >= p + 3
         /\ nodes[s[p]].kind = "LocalLoadStmt"
         /\ nodes[s[p]].id = "x"
         /\ nodes[s[p + 1]].kind = "ConstStatement"
         /\ nodes[s[p + 2]].kind = "BinaryOpStmt"
         /\ nodes[s[p + 3]].kind = "LocalStoreStmt"
         /\ nodes[s[p + 3]].id = "x"

\* C4: a FrontendPrintStmt(expr) is replaced, at its own position in its
\* parent StmtList, by the flattened sequence of expr followed by exactly
\* one PrintStmt whose operand is the last statement of that sequence;
\* print(a < 500) becomes load(a), const(500), binaryop(<), print(binaryop).
C4_PrintLowered ==
  [][Visiting("FrontendPrintStmt") =>
       LET stmt == cur
           n == Len(Spliced)
       IN  /\ nodes[stmt].parent = top.node
           /\ SiblingsKept
           /\ n >= 2
           /\ SplicedFresh
           /\ nodes'[Spliced[n]].kind = "PrintStmt"
           /\ nodes'[Spliced[n]].stmt = Spliced[n - 1]
           /\ \A i \in 1..(n - 1) : nodes'[Spliced[i]].kind # "PrintStmt"
           /\ Computes(nodes', Spliced[n - 1], nodes[stmt].expr)
           /\ {Spliced[i] : i \in 1..(n - 1)} = Support(nodes', Spliced[n - 1])
           /\ nodes[stmt].expr = 10 =>
                /\ n = 4
                /\ nodes'[Spliced[1]] =
                     [kind |-> "LocalLoadStmt", parent |-> top.node,
                      id |-> "a"]
                /\ nodes'[Spliced[2]] =
                     [kind |-> "ConstStatement", parent |-> top.node,
                      value |-> 500]
                /\ nodes'[Spliced[3]] =
                     [kind |-> "BinaryOpStmt", parent |-> top.node,
                      type |-> "<", lhs |-> Spliced[1], rhs |-> Spliced[2]]
                /\ nodes'[Spliced[4]] =
                     [kind |-> "PrintStmt", parent |-> top.node,
                      stmt |-> Spliced[3]]
  ]_vars

\* C4 witness: print(a < 500) has just been lowered: the comparison's
\* statements and a PrintStmt stand at its place.
C4_PrintJustLowered ==
  /\ exc = IRModifiedException
  /\ stack # <<>>
  /\ nodes[top.node].kind = "StmtList"
  /\ LET s == nodes[top.node].statements
         p == top.pos
     IN  /\ Len(s) >= p + 3
         /\ nodes[s[p]].kind = "LocalLoadStmt"
         /\ nodes[s[p + 1]].kind = "ConstStatement"
         /\ nodes[s[p + 2]].kind = "BinaryOpStmt"
         /\ nodes[s[p + 2]].type = "<"
         /\ nodes[s[p + 3]].kind = "PrintStmt"

\* the expression flattened by the visit of the high-level statement n
ExprOf(n) ==
  IF nodes[n].kind = "AssignStmt" THEN nodes[n].rhs ELSE nodes[n].expr

\* position in the sequence seq of its element x
PosIn(seq, x) == CHOOSE i \in DOMAIN seq : seq[i] = x

\* C5: flattening emits statements in post-order, the left operand's whole
\* sequence before the right operand's, and the last emitted statement
\* yields the expression's value; a + b gives load(a), load(b),
\* binaryop(+, load(a), load(b)) and (a + b) + c gives load(a), load(b),
\* binaryop1, load(c), binaryop2(binaryop1, load(c)).
C5_FlattenOrder ==
  [][(Visiting("AssignStmt") \/ Visiting("FrontendPrintStmt")) =>
       LET expr == ExprOf(cur)
           emitted == SubSeq(Spliced, 1, Len(Spliced) - 1)
           m == Len(emitted)
           all == {emitted[i] : i \in 1..m}
       IN  /\ m >= 1
           /\ Computes(nodes', emitted[m], expr)
           /\ all = Support(nodes', emitted[m])
           /\ \A i \in 1..m :
                nodes'[emitted[i]].kind = "BinaryOpStmt" =>
                  LET lhs == nodes'[emitted[i]].lhs
                      rhs == nodes'[emitted[i]].rhs
                  IN  /\ rhs = emitted[i - 1]
                      /\ \A a \in Support(nodes', lhs) :
                           \A b \in Support(nodes', rhs) :
                             PosIn(emitted, a) < PosIn(emitted, b)
                      /\ \A a \in Support(nodes', lhs) :
                           PosIn(emitted, a) <= PosIn(emitted, lhs)
                      /\ \A b \in Support(nodes', rhs) :
                           PosIn(emitted, b) <= PosIn(emitted, rhs)
           /\ expr = 4 =>
                /\ m = 3
                /\ nodes'[emitted[1]] =
                     [kind |-> "LocalLoadStmt", parent |-> top.node,
                      id |-> "a"]
                /\ nodes'[emitted[2]] =
                     [kind |-> "LocalLoadStmt", parent |-> top.node,
                      id |-> "b"]
                /\ nodes'[emitted[3]] =
                     [kind |-> "BinaryOpStmt", parent |-> top.node,
                      type |-> "+", lhs |-> emitted[1], rhs |-> emitted[2]]
           /\ expr = 6 =>
                /\ m = 5
                /\ nodes'[emitted[1]] =
                     [kind |-> "LocalLoadStmt", parent |-> top.node,
                      id |-> "a"]
                /\ nodes'[emitted[2]] =
                     [kind |-> "LocalLoadStmt", parent |-> top.node,
                      id |-> "b"]
                /\ nodes'[emitted[3]] =
                     [kind |-> "BinaryOpStmt", parent |-> top.node,
                      type |-> "+", lhs |-> emitted[1], rhs |-> emitted[2]]
                /\ nodes'[emitted[4]] =
                     [kind |-> "LocalLoadStmt", parent |-> top.node,
                      id |-> "c"]
                /\ nodes'[emitted[5]] =
                     [kind |-> "BinaryOpStmt", parent |-> top.node,
                      type |-> "+", lhs |-> emitted[3], rhs |-> emitted[4]]
  ]_vars

\* C5 witness: (a + b) + c has just been flattened: five statements, the
\* last of which yields its value, stand before the store.
C5_NestedSumJustFlattened ==
  /\ exc = IRModifiedException
  /\ stack # <<>>
  /\ nodes[top.node].kind = "StmtList"
  /\ LET s == nodes[top.node].statements
         p == top.pos
     IN  /\ Len(s) >= p + 5
         /\ nodes[s[p + 2]].kind = "BinaryOpStmt"
         /\ nodes[s[p + 3]].kind = "LocalLoadStmt"
         /\ nodes[s[p + 4]].kind = "BinaryOpStmt"
         /\ Computes(nodes, s[p + 4], 6)
         /\ nodes[s[p + 5]].kind = "LocalStoreStmt"

\* C6: after the replace_with of a rewrite the replaced statement is absent
\* from the tree, every replacement statement's parent is the replaced
\* statement's former parent StmtList, and the statements before and after
\* the replaced position, and every other StmtList, are as before.
C6_ReplaceCorrect ==
  [][(Visiting("AssignStmt") \/ Visiting("FrontendPrintStmt")) =>
       LET target == cur
           parent == nodes[cur].parent
       IN  /\ target \notin TreeOf(nodes')
           /\ Places(nodes', target) = {}
           /\ parent = top.node
           /\ Len(Spliced) >= 1
           /\ SplicedFresh
           /\ \A i \in DOMAIN Spliced : nodes'[Spliced[i]].parent = parent
           /\ SiblingsKept
           /\ \A l \in DOMAIN nodes :
                (nodes[l].kind = "StmtList" /\ l # parent) =>
                  /\ l \in DOMAIN nodes'
                  /\ nodes'[l] = nodes[l]
  ]_vars

\* C6 witness: a statement between two others, in the body of a ForStmt,
\* has just been replaced.
C6_ReplacedBetweenSiblings ==
  /\ exc = IRModifiedException
  /\ stack # <<>>
  /\ nodes[top.node].kind = "StmtList"
  /\ top.node # root
  /\ nodes[Holder(nodes, top.node)].kind = "ForStmt"
  /\ LET s == nodes[top.node].statements
     IN  /\ top.pos > 1
         /\ Len(s) > top.pos + 3
         /\ nodes[s[1]].kind = "AllocaStmt"
         /\ nodes[s[top.pos]].kind = "LocalLoadStmt"
         /\ nodes[s[Len(s)]].kind = "AllocaStmt"

\* C9: when LowerAST::run returns, every operand held by a BinaryOpStmt,
\* PrintStmt or LocalStoreStmt designates a statement present in the tree,
\* at exactly one place.
C9_OperandsInTree ==
  pc = "returned" =>
    \A n \in Tree :
      \A o \in Operands(nodes, n) :
        /\ o \in DOMAIN nodes
        /\ o \in Tree
        /\ Cardinality(Places(nodes, o)) = 1

\* C9 witness: run has returned with BinaryOpStmt, PrintStmt and
\* LocalStoreStmt statements in the tree.
C9_ReturnedWithOperands ==
  /\ pc = "returned"
  /\ \E n \in Tree : nodes[n].kind = "BinaryOpStmt"
  /\ \E n \in Tree : nodes[n].kind = "PrintStmt"
  /\ \E n \in Tree : nodes[n].kind = "LocalStoreStmt"

\* a step of the visit of a high-level statement
Rewriting == Visiting("AssignStmt") \/ Visiting("FrontendPrintStmt")

\* C13: every rewrite decreases the number of AssignStmt and
\* FrontendPrintStmt nodes of the tree by exactly one, and no statement it
\* splices in is an AssignStmt or a FrontendPrintStmt.
C13_RewriteRemovesOne ==
  [][Rewriting =>
       /\ Cardinality(HighLevel(nodes')) = Cardinality(HighLevel(nodes)) - 1
       /\ HighLevel(nodes') = HighLevel(nodes) \ {cur}
       /\ Len(Spliced) >= 1
       /\ \A i \in DOMAIN Spliced :
            nodes'[Spliced[i]].kind \notin HighLevelKinds
  ]_vars

\* C13 witness: a rewrite has just happened and a high-level statement is
\* still in the tree.
C13_RewrittenOneOfSeveral ==
  /\ exc = IRModifiedException
  /\ Cardinality(HighLevel(input)) >= 3
  /\ Cardinality(HighLevel(nodes)) = Cardinality(HighLevel(input)) - 2

\* C14: a traversal performs at most one rewrite; after the replace_with of
\* a rewrite the signal is in flight, and until the driving loop has caught
\* it the traversal only leaves the visits in progress: no node is visited,
\* no StmtList loop is resumed, the tree is left alone; the next visit is
\* of the root, at the start of a fresh traversal.
C14_SignalAndRestart ==
  [][/\ Rewriting => exc' = IRModifiedException
     /\ exc # NoException =>
          /\ nodes' = nodes
          /\ traversals' = traversals
          /\ IF stack # <<>>
             THEN /\ stack' = SubSeq(stack, 1, Len(stack) - 1)
                  /\ exc' = exc
             ELSE stack' = <<>>
     /\ (stack = <<>> /\ stack' # <<>>) =>
          /\ stack' = <<Frame(root)>>
          /\ exc' = NoException
          /\ traversals' = traversals + 1
     /\ Cardinality(HighLevel(input')) - Cardinality(HighLevel(nodes'))
          <= traversals'
  ]_vars

\* C14 witness: after a rewrite three visits deep, a fresh traversal is at
\* the first statement of the root.
C14_RestartedAfterNestedRewrite ==
  /\ pc = "try"
  /\ exc = NoException
  /\ traversals >= 2
  /\ stack = <<Frame(root)>>
  /\ \E n \in DOMAIN nodes :
       /\ nodes[n].kind \in {"PrintStmt", "LocalStoreStmt"}
       /\ nodes[n].parent # root
       /\ nodes[Holder(nodes, nodes[n].parent)].parent # root

\* the nodes under n in depth-first order: the statements of a StmtList in
\* sequence order, the true branch of an IfStmt before its false branch
RECURSIVE Preorder(_, _)
RECURSIVE PreorderFrom(_, _, _)
PreorderFrom(arena, statements, i) ==
  IF i > Len(statements) THEN <<>>
  ELSE Preorder(arena, statements[i]) \o PreorderFrom(arena, statements, i + 1)

Preorder(arena, n) ==
  CASE arena[n].kind = "StmtList" ->
         PreorderFrom(arena, arena[n].statements, 1)
    [] arena[n].kind = "IfStmt" ->
         <<n>>
           \o (IF arena[n].true_statements # NULL
               THEN Preorder(arena, arena[n].true_statements) ELSE <<>>)
           \o (IF arena[n].false_statements # NULL
               THEN Preorder(arena, arena[n].false_statements) ELSE <<>>)
    [] arena[n].kind = "ForStmt" -> <<n>> \o Preorder(arena, arena[n].body)
    [] OTHER -> <<n>>

\* the first AssignStmt or FrontendPrintStmt of the tree in depth-first order
FirstHighLevel(arena) ==
  LET order == Preorder(arena, root)
      high == {i \in DOMAIN order : arena[order[i]].kind \in HighLevelKinds}
  IN  order[CHOOSE i \in high : \A j \in high : i <= j]

\* C16: the statement a traversal rewrites is the first surviving
\* AssignStmt or FrontendPrintStmt in depth-first order.
C16_RewritesInSourceOrder ==
  [][Rewriting =>
       /\ HighLevel(nodes) # {}
       /\ cur = FirstHighLevel(nodes)
       /\ cur \notin DOMAIN nodes'
  ]_vars

\* C16 witness: a statement of the false branch of an IfStmt has just been
\* rewritten, after the one of its true branch.
C16_FalseBranchAfterTrueBranch ==
  /\ exc = IRModifiedException
  /\ stack # <<>>
  /\ \E i \in DOMAIN nodes :
       /\ nodes[i].kind = "IfStmt"
       /\ nodes[i].false_statements = top.node
       /\ nodes[i].true_statements # NULL
       /\ \E n \in Held(nodes, nodes[i].true_statements) :
            nodes[n].kind = "PrintStmt"

\* C17: in every state, each operand of a BinaryOpStmt, PrintStmt or
\* LocalStoreStmt of the tree is a statement located earlier in the same
\* StmtList as the statement that references it.
C17_DefinedBeforeUse ==
  \A n \in Tree :
    \A o \in Operands(nodes, n) :
      /\ o \in DOMAIN nodes
      /\ nodes[o].parent = nodes[n].parent
      /\ Cardinality(Places(nodes, o)) = 1
      /\ PosIn(nodes[nodes[n].parent].statements, o)
           < PosIn(nodes[nodes[n].parent].statements, n)

\* C17 witness: a traversal is under way over a tree that holds spliced
\* BinaryOpStmt statements and a surviving high-level statement.
C17_OperandsDuringLowering ==
  /\ pc = "try"
  /\ exc = NoException
  /\ HighLevel(nodes) # {}
  /\ \E n \in Tree : nodes[n].kind = "BinaryOpStmt"
  /\ \E n \in Tree : nodes[n].kind = "LocalStoreStmt"

\* the statement kinds LowerAST has empty visits for
LoweredKinds ==
  {"AllocaStmt", "BinaryOpStmt", "ConstStatement", "LocalLoadStmt",
   "LocalStoreStmt", "PrintStmt"}

\* C15: the visit of an AllocaStmt, BinaryOpStmt, ConstStatement,
\* LocalLoadStmt, LocalStoreStmt or PrintStmt changes nothing in the tree
\* and raises no signal; a run on a tree without AssignStmt and
\* FrontendPrintStmt makes exactly one traversal and leaves the tree as it
\* was given, so a second run on a lowered tree changes nothing.
C15_LoweredLeftAlone ==
  [][/\ (\E k \in LoweredKinds : Visiting(k)) =>
          /\ nodes' = nodes
          /\ exc' = NoException
          /\ pc' = pc
     /\ HighLevel(input') = {} =>
          /\ nodes' = input'
          /\ traversals' <= 1
          /\ pc' = "returned" => traversals' = 1
          /\ modified' = FALSE
  ]_vars

\* C15 witness: a second run has returned from a tree holding each kind of
\* lowered statement.
C15_SecondRunReturned ==
  /\ pc = "returned"
  /\ calls = 2
  /\ traversals = 1
  /\ nodes = input
  /\ \A k \in LoweredKinds : \E n \in Tree : nodes[n].kind = k

\* the statement whose visit by the printer is at a print
PrintedStmt == IF nodes[top.node].kind = "StmtList" THEN cur ELSE top.node

\* number of StmtLists enclosing the statement n
RECURSIVE Enclosing(_, _)
Enclosing(arena, n) ==
  IF arena[n].parent = root THEN 1
  ELSE 1 + Enclosing(arena, Holder(arena, arena[n].parent))

\* C18: given a root StmtList, the printer prints every line of a statement
\* at the indent level of the number of StmtLists enclosing the statement
\* minus one, the level is never negative when a line is printed, and
\* current_indent is -1 again when IRPrinter::run returns.
C18_IndentBalanced ==
  [][/\ (pc = "print" /\ out' # out) =>
          /\ out' = Append(out, out'[Len(out')])
          /\ current_indent >= 0
          /\ current_indent = Enclosing(nodes, PrintedStmt) - 1
          /\ out'[Len(out')].indent = current_indent
          /\ current_indent' = current_indent
     /\ (pc = "print" /\ pc' # "print") => current_indent' = -1
     /\ (pc # "print" /\ pc' = "print") => current_indent' = -1
  ]_vars

\* C18 witness: the closing line of an IfStmt in a ForStmt body has been
\* printed two levels deep, and the printer has returned.
C18_PrintedTwoLevelsDeep ==
  /\ pc = "returned"
  /\ outputs # <<>>
  /\ current_indent = -1
  /\ \E i \in DOMAIN outputs[1] :
       /\ outputs[1][i].indent = 1
       /\ outputs[1][i].text = <<"}">>
  /\ \E i \in DOMAIN outputs[1] :
       /\ outputs[1][i].indent = 2
       /\ outputs[1][i].text[2] = "print"

\* C11: no step of the printer changes the tree, and every IRPrinter::run
\* on a tree prints the lines the run before it printed.
C11_PrinterReadOnly ==
  [][/\ (pc = "print" \/ pc' = "print") =>
          /\ nodes' = nodes
          /\ next_id' = next_id
     /\ \A i, j \in DOMAIN outputs' : outputs'[i] = outputs'[j]
     /\ (pc' = "print" /\ outputs' # <<>>) =>
          /\ Len(out') <= Len(outputs'[1])
          /\ out' = SubSeq(outputs'[1], 1, Len(out'))
  ]_vars

\* C11 witness: the printer has run twice on a lowered tree that holds a
\* ConstStatement, a BinaryOpStmt and an IfStmt.
C11_PrintedTwice ==
  /\ pc = "returned"
  /\ Len(outputs) = 2
  /\ Len(outputs[2]) >= 6
  /\ \E k \in {"ConstStatement", "BinaryOpStmt", "IfStmt"} :
       \E n \in Tree : nodes[n].kind = k
  /\ \A k \in {"ConstStatement", "BinaryOpStmt"} :
       \E n \in Tree : nodes[n].kind = k

\* the expression objects reachable from expr, each counted once
RECURSIVE SubExprs(_)
SubExprs(expr) ==
  IF Exprs[expr].kind = "BinaryOpExpression"
  THEN {expr} \union SubExprs(Exprs[expr].lhs) \union SubExprs(Exprs[expr].rhs)
  ELSE {expr}

\* C12: within one flatten call every expression object reachable from the
\* flattened expression is materialized once: the rewrite splices in one
\* statement per expression object, and the PrintStmt or LocalStoreStmt.
C12_SharedMaterializedOnce ==
  [][Rewriting =>
       Len(Spliced) = Cardinality(SubExprs(ExprOf(cur))) + 1
  ]_vars

====
